---------------------------- MODULE Spec2Model ----------------------------
(***************************************************************************)
(* Bitrix24 contact importer.  Two programs of the repository are modelled *)
(* side by side: the Streamlit application (import_contacts_streamlit.py)  *)
(* and the Tk script (import_contacts.py).  The variable `variant' says    *)
(* which program a behaviour runs.                                         *)
(*                                                                         *)
(* Text is a sequence of one-character tokens, so that str.strip() is a    *)
(* computation and not the identity.  Python's None is the reserved value  *)
(* None, which no text over Chars equals.                                  *)
(***************************************************************************)
EXTENDS Integers, Sequences, FiniteSets, TLC

VARIABLES
    variant,        \* which program runs: "streamlit" | "cli"
    dup_check,      \* st.toggle(...) / ask_duplicate_check()
    df,             \* the table: a sequence of rows, a row maps column -> cell
    mapping,        \* the column mapping, a sequence of <<column, field id>> in dict order
    faithful,       \* TRUE: the remote answers searches from what was created in this run
    pc,             \* position of the program
    idx,            \* number of rows already handled (the loop's 0-based index)
    fields_payload, \* payload of the row being handled
    email,          \* identity values of the row being handled
    phone,
    ids,            \* streamlit: ids list
    logs,           \* streamlit: logs list
    ok_count,       \* streamlit: ok_count
    success_count,  \* cli: success_count
    fail_count,
    sheet,          \* cli: the BITRIX_ID column, one cell per data row
    out,            \* cli: what print() wrote
    remote,         \* contacts the remote created in this run
    requests,       \* every request issued so far, in order
    catalog,        \* schema fetch: the response of crm.contact.fields
    fields          \* schema fetch: what the fetcher returned

vars == <<variant, dup_check, df, mapping, faithful, pc, idx, fields_payload,
          email, phone, ids, logs, ok_count, success_count, fail_count, sheet, out, remote,
          requests, catalog, fields>>

---------------------------------------------------------------------------
(* Bounds *)

MaxRows == 2
MaxStrLen == 2

---------------------------------------------------------------------------
(* Values *)

(* Python values are records tagged by type: None, text (a sequence of     *)
(* one-character tokens, so that str.strip() is a computation), integers   *)
(* and timestamps.                                                         *)
None == [t |-> "none"]
Str(s) == [t |-> "str", v |-> s]
Num(n) == [t |-> "num", n |-> n]
Timestamp(d, tod) == [t |-> "ts", date |-> d, time |-> tod]

\* bool(v)
Truthy(v) ==
    CASE v.t = "none" -> FALSE
      [] v.t = "str" -> v.v # <<>>
      [] v.t = "num" -> v.n # 0
      [] OTHER -> TRUE

\* Python's `x or y'
Or(x, y) == IF Truthy(x) THEN x ELSE y

Digit == <<"1", "2", "3", "4", "5", "6", "7", "8", "9">>

RECURSIVE Digits(_)
Digits(n) ==
    IF n < 10 THEN <<IF n = 0 THEN "0" ELSE Digit[n]>>
    ELSE Append(Digits(n \div 10), IF n % 10 = 0 THEN "0" ELSE Digit[n % 10])

\* str(v) for the values a cell can hold after sanitize_value
str(v) ==
    CASE v.t = "str" -> v
      [] v.t = "num" -> Str(Digits(v.n))
      [] v.t = "ts" -> Str(<<v.date, " ", v.time>>)
      [] OTHER -> Str(<<"N", "o", "n", "e">>)

RECURSIVE lstrip(_)
lstrip(s) == IF s # <<>> /\ Head(s) = " " THEN lstrip(Tail(s)) ELSE s

RECURSIVE rstrip(_)
rstrip(s) ==
    IF s # <<>> /\ s[Len(s)] = " " THEN rstrip(SubSeq(s, 1, Len(s) - 1)) ELSE s

\* s.strip() of a text value
strip(v) == Str(rstrip(lstrip(v.v)))

\* pd.isna(v): an empty cell is read as NaN
isna(v) == v.t = "none"

---------------------------------------------------------------------------
(* Dictionaries: functions from keys to values *)

EmptyDict == [k \in {} |-> None]

Put(d, k, v) == [x \in DOMAIN d \cup {k} |-> IF x = k THEN v ELSE d[x]]

\* d.get(k, default)
Get(d, k, default) == IF k \in DOMAIN d THEN d[k] ELSE default

---------------------------------------------------------------------------
(* Streamlit application: the payload builder *)

WORK == Str(<<"WORK">>)

Entry(value, value_type) == [VALUE |-> value, VALUE_TYPE |-> value_type]

sanitize_value(v) ==
    IF isna(v) THEN None
    ELSE IF v.t = "ts" THEN Str(<<v.date>>)
    ELSE v

RECURSIVE ensure_multifield_loop(_, _, _)
ensure_multifield_loop(lst, seen, cleaned) ==
    IF lst = <<>> THEN cleaned
    ELSE LET item == Head(lst)
             val == strip(Or(item.VALUE, Str(<<>>)))
             key == <<Or(item.VALUE_TYPE, WORK), val>>
         IN  IF ~Truthy(val) THEN ensure_multifield_loop(Tail(lst), seen, cleaned)
             ELSE IF key \in seen THEN ensure_multifield_loop(Tail(lst), seen, cleaned)
             ELSE ensure_multifield_loop(Tail(lst), seen \cup {key},
                      Append(cleaned, Entry(val, Or(item.VALUE_TYPE, WORK))))

ensure_multifield(lst) == ensure_multifield_loop(lst, {}, <<>>)

\* the loop of build_payload over mapping.items(); acc = [fields, emails, phones]
RECURSIVE build_payload_loop(_, _, _)
build_payload_loop(row, items, acc) ==
    IF items = <<>> THEN acc
    ELSE LET col == Head(items)[1]
             fid == Head(items)[2]
             raw == sanitize_value(row[col])
         IN  IF raw = None THEN build_payload_loop(row, Tail(items), acc)
             ELSE IF fid = "EMAIL" THEN
                 build_payload_loop(row, Tail(items),
                     [acc EXCEPT !.emails = Append(@, Entry(str(raw), WORK))])
             ELSE IF fid = "PHONE" THEN
                 build_payload_loop(row, Tail(items),
                     [acc EXCEPT !.phones = Append(@, Entry(str(raw), WORK))])
             ELSE build_payload_loop(row, Tail(items),
                     [acc EXCEPT !.fields = Put(@, fid, raw)])

build_payload(row, items) ==
    LET acc == build_payload_loop(row, items,
                   [fields |-> EmptyDict, emails |-> <<>>, phones |-> <<>>])
        f1 == IF acc.emails # <<>>
              THEN Put(acc.fields, "EMAIL", ensure_multifield(acc.emails))
              ELSE acc.fields
    IN  IF acc.phones # <<>>
        THEN Put(f1, "PHONE", ensure_multifield(acc.phones))
        ELSE f1

\* the first value of a multi-valued field of the payload, or None
first_value(payload, fid) ==
    IF fid \in DOMAIN payload /\ payload[fid] # <<>>
    THEN payload[fid][1].VALUE
    ELSE None

---------------------------------------------------------------------------
(* Tk script: the payload construction of run_import *)

\* a mapping value of the Tk script is the text "<field> - <title>"
Label(f, title) == [field |-> f, title |-> title]

\* bitrix_field_full.split(" - ")[0]
split_label(full) == full.field

\* acc = [fields, email, phone]
RECURSIVE cli_payload_loop(_, _, _)
cli_payload_loop(row, items, acc) ==
    IF items = <<>> THEN acc
    ELSE LET excel_col == Head(items)[1]
             bitrix_field == split_label(Head(items)[2])
             value == row[excel_col]
         IN  IF ~Truthy(value) THEN cli_payload_loop(row, Tail(items), acc)
             ELSE IF bitrix_field = "EMAIL" THEN
                 cli_payload_loop(row, Tail(items),
                     [acc EXCEPT !.email = value,
                                 !.fields = Put(@, bitrix_field, <<Entry(value, WORK)>>)])
             ELSE IF bitrix_field = "PHONE" THEN
                 cli_payload_loop(row, Tail(items),
                     [acc EXCEPT !.phone = value,
                                 !.fields = Put(@, bitrix_field, <<Entry(value, WORK)>>)])
             ELSE cli_payload_loop(row, Tail(items),
                     [acc EXCEPT !.fields = Put(@, bitrix_field, value)])

cli_payload(row, items) ==
    cli_payload_loop(row, items, [fields |-> EmptyDict, email |-> None, phone |-> None])

---------------------------------------------------------------------------
(* The remote system *)

Raise(msg) == [kind |-> "raise", e |-> msg]
Response(data) == [kind |-> "ok", data |-> data]

Timeout == Str(<<"timeout">>)

\* an identifier the remote held before the run
ExistingId == Str(<<"7">>)

\* the values a created contact holds in a multi-valued field
RECURSIVE Values(_)
Values(lst) == IF lst = <<>> THEN {} ELSE {Head(lst).VALUE} \cup Values(Tail(lst))

\* crm.contact.list: a contact matches when it matches every key of the filter
ContactMatches(c, flt) ==
    \A k \in DOMAIN flt : k \in DOMAIN c.fields /\ flt[k] \in Values(c.fields[k])

RECURSIVE Select(_, _)
Select(contacts, flt) ==
    IF contacts = <<>> THEN <<>>
    ELSE IF ContactMatches(Head(contacts), flt)
         THEN <<[ID |-> Head(contacts).ID]>> \o Select(Tail(contacts), flt)
         ELSE Select(Tail(contacts), flt)

\* the answers crm.contact.list can give to a filter
SearchAnswers(flt) ==
    {Raise(Timeout)} \cup
    IF faithful
    THEN {Response([result |-> Select(remote, flt)])}
    ELSE {Response([result |-> <<>>]), Response([result |-> <<[ID |-> ExistingId]>>])}

\* the identifier crm.contact.add gives to the next contact
NewId == Num(Len(remote) + 1)

\* the answers crm.contact.add can give
AddAnswers ==
    {Raise(Timeout),
     Response([result |-> NewId]),
     Response([error |-> Str(<<"E">>), error_description |-> Str(<<"bad field">>)]),
     Response([result |-> Str(<<>>)])}

\* the remote after answering `resp' to a create request for `payload'
Stored(resp, payload) ==
    IF resp.kind = "ok" /\ "result" \in DOMAIN resp.data /\ Truthy(resp.data.result)
    THEN Append(remote, [ID |-> str(resp.data.result), fields |-> payload])
    ELSE remote

\* json.dumps(x): the text that encodes x
json_dumps(x) == [t |-> "json", of |-> x]

---------------------------------------------------------------------------
(* Requests and the reading of their answers *)

\* a request issued while row idx + 1 is handled, with the answer it got
ListRequest(flt, resp) ==
    [row |-> idx + 1, method |-> "crm.contact.list",
     body |-> [filter |-> flt, select |-> <<"ID">>], answer |-> resp]

AddRequest(payload, resp) ==
    [row |-> idx + 1, method |-> "crm.contact.add", body |-> [fields |-> payload],
     answer |-> resp]

\* query_result reading a key the answer never has
query_result_wrong_key(data) ==
    LET res == IF "items" \in DOMAIN data THEN data.items ELSE <<>>
    IN  IF res # <<>> THEN res[1].ID ELSE None

\* _query: the identifier of the first contact of the answer, or None
query_result(data) ==
    LET res == IF "result" \in DOMAIN data THEN data.result ELSE <<>>
    IN  IF res # <<>> THEN res[1].ID ELSE None

\* add_contact_result without the test for an identifier
add_contact_unchecked(data) ==
    <<str(Get(data, "result", None)), Str(<<"Created">>)>>

\* add_contact: <<contact_id, result>> from the answer's data
add_contact_result(data) ==
    IF "result" \in DOMAIN data /\ Truthy(data.result)
    THEN <<str(data.result), Str(<<"Created">>)>>
    ELSE <<None, Or(Get(data, "error_description", None), json_dumps(data))>>

---------------------------------------------------------------------------
(* Streamlit application: the import loop *)

importVars == <<variant, dup_check, df, mapping, faithful>>
fetchVars == <<catalog, fields>>
cliVars == <<success_count, sheet, out>>

\* the end of the try block: the row's outcome is logged
St_Log(contact_id, result) ==
    /\ ids' = Append(ids, contact_id)
    /\ logs' = Append(logs, [row |-> idx + 1,
                             result |-> result,
                             contact_id |-> Or(contact_id, Str(<<>>)),
                             payload |-> json_dumps(fields_payload)])
    /\ idx' = idx + 1
    /\ pc' = "loop"

\* St_Except with the log entry forgotten
St_Except_NoLog(e) ==
    /\ ids' = Append(ids, None)
    /\ logs' = logs
    /\ idx' = idx + 1
    /\ pc' = "loop"

\* the except block
St_Except(e) ==
    /\ ids' = Append(ids, None)
    /\ logs' = Append(logs, [row |-> idx + 1,
                             result |-> Str(<<"Error: ">> \o e.v),
                             contact_id |-> Str(<<>>),
                             payload |-> json_dumps(fields_payload)])
    /\ idx' = idx + 1
    /\ pc' = "loop"

\* top of the loop body: the payload and the identity values of the row
St_BuildRow ==
    /\ variant = "streamlit"
    /\ pc = "loop"
    /\ idx < Len(df)
    /\ LET payload == build_payload(df[idx + 1], mapping)
           e == first_value(payload, "EMAIL")
           p == first_value(payload, "PHONE")
       IN  /\ fields_payload' = payload
           /\ email' = e
           /\ phone' = p
           /\ pc' = IF dup_check /\ (Truthy(e) \/ Truthy(p))
                    THEN IF Truthy(e) THEN "query_email"
                         ELSE IF Truthy(p) THEN "query_phone" ELSE "add_contact"
                    ELSE "add_contact"
    /\ UNCHANGED <<importVars, fetchVars, cliVars, idx, ids, logs, ok_count,
                   fail_count, remote, requests>>

\* find_existing_contact: the query by e-mail
St_QueryEmail ==
    /\ variant = "streamlit"
    /\ pc = "query_email"
    /\ \E resp \in SearchAnswers([EMAIL |-> email]) :
          /\ requests' = Append(requests, ListRequest([EMAIL |-> email], resp))
          /\ IF resp.kind = "raise" THEN St_Except(resp.e)
             ELSE LET cid == query_result(resp.data)
                  IN  IF Truthy(cid) THEN St_Log(cid, Str(<<"DuplicateFound">>))
                      ELSE /\ pc' = IF Truthy(phone) THEN "query_phone" ELSE "add_contact"
                           /\ UNCHANGED <<ids, logs, idx>>
    /\ UNCHANGED <<importVars, fetchVars, cliVars, fields_payload, email, phone,
                   ok_count, fail_count, remote>>

\* find_existing_contact: the query by phone
St_QueryPhone ==
    /\ variant = "streamlit"
    /\ pc = "query_phone"
    /\ \E resp \in SearchAnswers([PHONE |-> phone]) :
          /\ requests' = Append(requests, ListRequest([PHONE |-> phone], resp))
          /\ IF resp.kind = "raise" THEN St_Except(resp.e)
             ELSE LET cid == query_result(resp.data)
                  IN  IF Truthy(cid) THEN St_Log(cid, Str(<<"DuplicateFound">>))
                      ELSE /\ pc' = "add_contact"
                           /\ UNCHANGED <<ids, logs, idx>>
    /\ UNCHANGED <<importVars, fetchVars, cliVars, fields_payload, email, phone,
                   ok_count, fail_count, remote>>

\* add_contact and the logging of its result
St_AddContact ==
    /\ variant = "streamlit"
    /\ pc = "add_contact"
    /\ \E resp \in AddAnswers :
          /\ requests' = Append(requests, AddRequest(fields_payload, resp))
          /\ remote' = Stored(resp, fields_payload)
          /\ IF resp.kind = "raise" THEN St_Except(resp.e)
             ELSE LET r == add_contact_result(resp.data)
                  IN  St_Log(r[1], r[2])
    /\ UNCHANGED <<importVars, fetchVars, cliVars, fields_payload, email, phone,
                   ok_count, fail_count>>

\* number of truthy entries of the ids list
RECURSIVE count_truthy(_)
count_truthy(lst) ==
    IF lst = <<>> THEN 0
    ELSE (IF Truthy(Head(lst)) THEN 1 ELSE 0) + count_truthy(Tail(lst))

\* after the loop: the counters
St_Results ==
    /\ variant = "streamlit"
    /\ pc = "loop"
    /\ idx = Len(df)
    /\ ok_count' = count_truthy(ids)
    /\ fail_count' = Len(df) - count_truthy(ids)
    /\ pc' = "done"
    /\ UNCHANGED <<importVars, fetchVars, cliVars, idx, fields_payload, email,
                   phone, ids, logs, remote, requests>>

---------------------------------------------------------------------------
(* Tk script: run_import *)

stVars == <<ids, logs, ok_count>>

\* find_existing_contact: the filter built from the identity values
cli_filters(e, p) ==
    LET f1 == IF Truthy(e) THEN Put(EmptyDict, "EMAIL", e) ELSE EmptyDict
    IN  IF Truthy(p) THEN Put(f1, "PHONE", p) ELSE f1

\* Cli_NextRow leaving the loop
Cli_NextRow_Break ==
    /\ idx' = idx + 1
    /\ pc' = "done"

\* the loop goes on to the next row
Cli_NextRow ==
    /\ idx' = idx + 1
    /\ pc' = "loop"

\* top of the loop body: contact_data and the identity values of the row
Cli_BuildRow ==
    /\ variant = "cli"
    /\ pc = "loop"
    /\ idx < Len(df)
    /\ LET acc == cli_payload(df[idx + 1], mapping)
       IN  /\ fields_payload' = acc.fields
           /\ email' = acc.email
           /\ phone' = acc.phone
           /\ pc' = IF dup_check /\ cli_filters(acc.email, acc.phone) # EmptyDict
                    THEN "cli_query" ELSE "cli_add"
    /\ UNCHANGED <<importVars, fetchVars, cliVars, stVars, idx, fail_count,
                   remote, requests>>

\* find_existing_contact: the one query with the whole filter
Cli_Query ==
    /\ variant = "cli"
    /\ pc = "cli_query"
    /\ \E resp \in SearchAnswers(cli_filters(email, phone)) :
          /\ requests' = Append(requests, ListRequest(cli_filters(email, phone), resp))
          /\ IF resp.kind = "raise"
             THEN /\ out' = Append(out, <<"Error on row", idx + 2>>)
                  /\ fail_count' = fail_count + 1
                  /\ Cli_NextRow
                  /\ UNCHANGED sheet
             ELSE LET existing_id == query_result(resp.data)
                  IN  IF Truthy(existing_id)
                      THEN /\ out' = Append(out, <<"Duplicate found", existing_id>>)
                           /\ sheet' = [sheet EXCEPT ![idx + 1] = existing_id]
                           /\ Cli_NextRow
                           /\ UNCHANGED fail_count
                      ELSE /\ pc' = "cli_add"
                           /\ UNCHANGED <<idx, out, sheet, fail_count>>
    /\ UNCHANGED <<importVars, fetchVars, stVars, success_count, fields_payload,
                   email, phone, remote>>

\* the create request and the counters
Cli_Add ==
    /\ variant = "cli"
    /\ pc = "cli_add"
    /\ \E resp \in AddAnswers :
          /\ requests' = Append(requests, AddRequest(fields_payload, resp))
          /\ remote' = Stored(resp, fields_payload)
          /\ IF resp.kind = "raise"
             THEN /\ out' = Append(out, <<"Error on row", idx + 2>>)
                  /\ fail_count' = fail_count + 1
                  /\ UNCHANGED <<sheet, success_count>>
             ELSE LET new_id == Get(resp.data, "result", None)
                  IN  IF Truthy(new_id)
                      THEN /\ out' = Append(out, <<"Created", new_id>>)
                           /\ success_count' = success_count + 1
                           /\ sheet' = [sheet EXCEPT ![idx + 1] = new_id]
                           /\ UNCHANGED fail_count
                      ELSE /\ fail_count' = fail_count + 1
                           /\ UNCHANGED <<out, sheet, success_count>>
    /\ Cli_NextRow
    /\ UNCHANGED <<importVars, fetchVars, stVars, fields_payload, email, phone>>

\* after the loop: the workbook is saved and the summary shown
Cli_Save ==
    /\ variant = "cli"
    /\ pc = "loop"
    /\ idx = Len(df)
    /\ pc' = "done"
    /\ UNCHANGED <<importVars, fetchVars, cliVars, stVars, idx, fields_payload,
                   email, phone, fail_count, remote, requests>>

---------------------------------------------------------------------------
(* The schema fetchers *)

allowed == {"string", "integer", "double", "boolean", "enumeration", "date", "datetime"}

\* the order in which the catalog lists its fields
CatalogOrder == <<"NAME", "EMAIL", "PHONE">>

Writable(v) == Get(v, "type", "") \in allowed /\ ~Get(v, "isReadOnly", FALSE)

\* fetch_contact_fields: the dictionary comprehension
fetch_contact_fields(result) ==
    [k \in {x \in DOMAIN result : Writable(result[x])} |-> result[k]]

RECURSIVE KeysInOrder(_, _)
KeysInOrder(order, keys) ==
    IF order = <<>> THEN <<>>
    ELSE (IF Head(order) \in keys THEN <<Head(order)>> ELSE <<>>)
         \o KeysInOrder(Tail(order), keys)

\* fetch_bitrix_fields: the list of keys and their labels, or [] on failure
fetch_bitrix_fields(data) ==
    IF "result" \notin DOMAIN data \/ DOMAIN data.result = {} THEN <<>>
    ELSE LET result == data.result
             bitrix_fields == KeysInOrder(CatalogOrder,
                                  {x \in DOMAIN result : Writable(result[x])})
         IN  <<bitrix_fields,
               [k \in {x \in DOMAIN result : Writable(result[x])} |->
                   Get(result[k], "title", k)]>>

\* the "Carregar campos" button of the Streamlit application
St_Fetch ==
    /\ variant = "streamlit"
    /\ pc = "fetch"
    /\ fields' = IF "result" \notin DOMAIN catalog THEN fields
                 ELSE fetch_contact_fields(catalog.result)
    /\ pc' = "fetched"
    /\ UNCHANGED <<importVars, cliVars, stVars, catalog, idx, fields_payload,
                   email, phone, fail_count, remote, requests>>

\* map_fields of the Tk script calls fetch_bitrix_fields
Cli_Fetch ==
    /\ variant = "cli"
    /\ pc = "fetch"
    /\ fields' = fetch_bitrix_fields(catalog)
    /\ pc' = "fetched"
    /\ UNCHANGED <<importVars, cliVars, stVars, catalog, idx, fields_payload,
                   email, phone, fail_count, remote, requests>>

---------------------------------------------------------------------------
(* Inputs *)

Header == <<"A", "B">>
Cols == {Header[i] : i \in 1..Len(Header)}
Targets == {"NAME", "EMAIL", "PHONE"}

\* the user's selections: a target or "skip" for every column
Selections == [Cols -> Targets \cup {"skip"}]

\* the mapping of the Streamlit application, built over df_cols in order
RECURSIVE st_mapping(_, _)
st_mapping(cols, sel) ==
    IF cols = <<>> THEN <<>>
    ELSE (IF sel[Head(cols)] # "skip" THEN <<<<Head(cols), sel[Head(cols)]>>>> ELSE <<>>)
         \o st_mapping(Tail(cols), sel)

\* submit_mappings of the Tk script, built over headers in order
RECURSIVE submit_mappings(_, _)
submit_mappings(headers, sel) ==
    IF headers = <<>> THEN <<>>
    ELSE (IF sel[Head(headers)] # "skip"
          THEN <<<<Head(headers), Label(sel[Head(headers)], sel[Head(headers)])>>>>
          ELSE <<>>)
         \o submit_mappings(Tail(headers), sel)

Chars == {"a", "b", " "}

\* texts of at most n characters
RECURSIVE Texts(_)
Texts(n) ==
    IF n = 0 THEN {<<>>}
    ELSE Texts(n - 1) \cup {Append(s, c) : s \in {x \in Texts(n - 1) : Len(x) = n - 1}, c \in Chars}

\* cells of the imported tables: a value or nothing.  When the remote answers
\* from what it created, column B holds two values, so that rows can agree on
\* one identity value and differ on the other.
LoopCells == [A |-> {None, Str(<<"a">>)}, B |-> {None, Str(<<"a">>)}]
FaithfulCells == [A |-> {None, Str(<<"a">>)}, B |-> {None, Str(<<"a">>), Str(<<"b">>)}]

\* selections of the imported tables: every column is an identity column
LoopSelections == [Cols -> {"EMAIL", "PHONE"}]

PayloadCells ==
    [c \in Cols |-> {None, Num(15), Timestamp("2024-03-05", "10:30")}
                    \cup {Str(s) : s \in Texts(MaxStrLen)}]

RowsOver(cells) == {r \in [Cols -> UNION {cells[c] : c \in Cols}] :
                      \A c \in Cols : r[c] \in cells[c]}

TablesOver(cells, lo, hi) ==
    UNION {[1..n -> RowsOver(cells)] : n \in lo..hi}

Types == {"string", "datetime", "crm_multifield"}

Metas ==
    {[type |-> ty, isReadOnly |-> ro, title |-> "T"] : ty \in Types, ro \in BOOLEAN}
    \cup {[type |-> ty, title |-> "T"] : ty \in Types}

Catalogs ==
    {EmptyDict, [error |-> "E"]} \cup
    {[result |-> r] : r \in UNION {[S -> Metas] : S \in SUBSET {"NAME", "EMAIL", "PHONE"}}}

---------------------------------------------------------------------------
(* Specifications *)

InitCommon ==
    /\ idx = 0
    /\ fields_payload = EmptyDict
    /\ email = None
    /\ phone = None
    /\ ids = <<>>
    /\ logs = <<>>
    /\ ok_count = 0
    /\ success_count = 0
    /\ fail_count = 0
    /\ sheet = [i \in 1..Len(df) |-> None]
    /\ out = <<>>
    /\ remote = <<>>
    /\ requests = <<>>
    /\ fields = None

InitInputs(cells, lo, hi, selections) ==
    /\ variant \in {"streamlit", "cli"}
    /\ df \in TablesOver(cells, lo, hi)
    /\ \E sel \in selections :
          mapping = IF variant = "streamlit" THEN st_mapping(Header, sel)
                    ELSE submit_mappings(Header, sel)
    \* the import button of the Streamlit application wants a mapping
    /\ variant = "streamlit" => mapping # <<>>
    \* load_dataframe: pandas reads an empty field as NaN, never as empty text
    /\ variant = "streamlit" =>
          \A n \in 1..Len(df) : \A c \in Cols : df[n][c] # Str(<<>>)
    /\ pc = "loop"
    /\ catalog = EmptyDict

\* the import of a table of at most MaxRows rows; the remote answers anything
Init ==
    /\ InitInputs(LoopCells, 0, MaxRows, LoopSelections)
    /\ dup_check \in BOOLEAN
    /\ faithful = FALSE
    /\ InitCommon

Next ==
    \/ St_BuildRow
    \/ St_QueryEmail
    \/ St_QueryPhone
    \/ St_AddContact
    \/ St_Results
    \/ Cli_BuildRow
    \/ Cli_Query
    \/ Cli_Add
    \/ Cli_Save

Spec == Init /\ [][Next]_vars

\* the import with duplicate checking against a remote whose searches find
\* every contact created earlier in the run
InitFaithful ==
    /\ InitInputs(FaithfulCells, 0, MaxRows, LoopSelections)
    /\ dup_check = TRUE
    /\ faithful = TRUE
    /\ InitCommon

SpecFaithful == InitFaithful /\ [][Next]_vars

\* the payload builders applied to one row of arbitrary cells
InitPayload ==
    /\ InitInputs(PayloadCells, 1, 1, Selections)
    /\ dup_check = FALSE
    /\ faithful = TRUE
    /\ InitCommon

NextPayload ==
    \/ St_BuildRow
    \/ Cli_BuildRow

SpecPayload == InitPayload /\ [][NextPayload]_vars

\* the schema fetchers applied to an arbitrary catalog
InitFetch ==
    /\ variant \in {"streamlit", "cli"}
    /\ df = <<>>
    /\ mapping = <<>>
    /\ dup_check = FALSE
    /\ faithful = TRUE
    /\ pc = "fetch"
    /\ catalog \in Catalogs
    /\ InitCommon

NextFetch ==
    \/ St_Fetch
    \/ Cli_Fetch

SpecFetch == InitFetch /\ [][NextFetch]_vars

---------------------------------------------------------------------------
(* Reading the history of requests *)

RequestsOf(k) == {i \in 1..Len(requests) : requests[i].row = k}
ListsOf(k) == {i \in RequestsOf(k) : requests[i].method = "crm.contact.list"}
AddsOf(k) == {i \in RequestsOf(k) : requests[i].method = "crm.contact.add"}

Raised(x) == x.answer.kind = "raise"

\* a search answered with at least one contact
IsHit(x) ==
    /\ x.method = "crm.contact.list"
    /\ x.answer.kind = "ok"
    /\ "result" \in DOMAIN x.answer.data
    /\ x.answer.data.result # <<>>

HitId(x) == x.answer.data.result[1].ID

\* a search answered with no contact
IsMiss(x) ==
    /\ x.method = "crm.contact.list"
    /\ x.answer.kind = "ok"
    /\ ~IsHit(x)

\* a create answered with an identifier
IsCreated(x) ==
    /\ x.method = "crm.contact.add"
    /\ x.answer.kind = "ok"
    /\ "result" \in DOMAIN x.answer.data
    /\ x.answer.data.result \notin {None, Str(<<>>), Num(0)}

\* a create answered without an identifier
IsRejected(x) ==
    /\ x.method = "crm.contact.add"
    /\ x.answer.kind = "ok"
    /\ ~IsCreated(x)

\* the identity values of row k, as the running program extracts them
EmailOf(k) ==
    IF variant = "streamlit" THEN first_value(build_payload(df[k], mapping), "EMAIL")
    ELSE cli_payload(df[k], mapping).email

PhoneOf(k) ==
    IF variant = "streamlit" THEN first_value(build_payload(df[k], mapping), "PHONE")
    ELSE cli_payload(df[k], mapping).phone

Present(v) == v # None /\ v # Str(<<>>)

\* the identifier recorded for row k, empty text when there is none
RemoteIdOf(k) ==
    IF variant = "streamlit" THEN logs[k].contact_id
    ELSE IF sheet[k] = None THEN Str(<<>>) ELSE str(sheet[k])

IsErrorText(r) == r.t = "str" /\ r.v # <<>> /\ r.v[1] = "Error: "

\* the outcome kind a log entry of the Streamlit application stands for
OutcomeKind(e) ==
    IF e.contact_id # Str(<<>>)
    THEN IF e.result = Str(<<"Created">>) THEN "Created"
         ELSE IF e.result = Str(<<"DuplicateFound">>) THEN "DuplicateFound"
         ELSE "unknown"
    ELSE IF IsErrorText(e.result) THEN "Error" ELSE "Failed"

---------------------------------------------------------------------------
CanStep ==
    \/ pc = "loop" /\ idx < Len(df)
    \/ pc = "loop" /\ idx = Len(df)
    \/ variant = "streamlit" /\ pc \in {"query_email", "query_phone", "add_contact"}
    \/ variant = "cli" /\ pc \in {"cli_query", "cli_add"}

C9_CreateOutcome ==
    variant = "streamlit" =>
        \A k \in 1..Len(logs) :
            /\ OutcomeKind(logs[k]) \in {"Created", "DuplicateFound", "Failed", "Error"}
            /\ \A i \in AddsOf(k) :
                  /\ IsCreated(requests[i]) =>
                        /\ OutcomeKind(logs[k]) = "Created"
                        /\ logs[k].contact_id = str(requests[i].answer.data.result)
                        /\ ids[k] = logs[k].contact_id
                  /\ IsRejected(requests[i]) =>
                        /\ OutcomeKind(logs[k]) = "Failed"
                        /\ logs[k].contact_id = Str(<<>>)
                        /\ ids[k] = None
            /\ OutcomeKind(logs[k]) \in {"Created", "Failed"} =>
                  \E i \in AddsOf(k) : ~Raised(requests[i])

C9_Witness ==
    /\ variant = "streamlit"
    /\ Len(logs) >= 2
    /\ \E i \in AddsOf(1) : IsRejected(requests[i])
    /\ OutcomeKind(logs[1]) = "Failed"
    /\ \E i \in AddsOf(2) : IsCreated(requests[i])
    /\ OutcomeKind(logs[2]) = "Created"

(* C4: for every row the resolver issues no search when the row has no      *)
(* identity value, at most one search per identity field, each filtering on *)
(* that one field only with the row's value, the e-mail search before the   *)
(* phone search, and no phone search after an e-mail search that found a    *)
(* contact.                                                                 *)
FilterOf(i) == requests[i].body.filter

ResolverQueries(k) ==
    /\ ~Present(EmailOf(k)) /\ ~Present(PhoneOf(k)) => ListsOf(k) = {}
    /\ \A i \in ListsOf(k) :
          \/ DOMAIN FilterOf(i) = {"EMAIL"} /\ FilterOf(i).EMAIL = EmailOf(k)
          \/ DOMAIN FilterOf(i) = {"PHONE"} /\ FilterOf(i).PHONE = PhoneOf(k)
    /\ \A i, j \in ListsOf(k) :
          i < j => /\ "EMAIL" \in DOMAIN FilterOf(i)
                   /\ "PHONE" \in DOMAIN FilterOf(j)
                   /\ ~IsHit(requests[i])

C4_ResolverQueries == \A k \in 1..Len(df) : ResolverQueries(k)

\* the same, of the Streamlit application alone
C4_Streamlit == variant = "streamlit" => C4_ResolverQueries

(* C5: when all rows are processed the success counter is the number of     *)
(* rows with a non-empty remote identifier, the failure counter the number  *)
(* of the other rows, and the two add up to the number of input rows.       *)
RowsWithId == {k \in 1..Len(df) : RemoteIdOf(k) # Str(<<>>)}

SuccessCounter == IF variant = "streamlit" THEN ok_count ELSE success_count

C5_Counters ==
    pc = "done" =>
        /\ SuccessCounter = Cardinality(RowsWithId)
        /\ fail_count = Len(df) - Cardinality(RowsWithId)
        /\ SuccessCounter + fail_count = Len(df)

\* the same, of the Streamlit application alone
C5_Streamlit == variant = "streamlit" => C5_Counters

(* C10: requests are issued row after row, and with duplicate checking on   *)
(* against a remote that finds every contact created earlier in the run,    *)
(* two rows with the same first e-mail value (or, neither having an e-mail, *)
(* the same first phone value) are never both created.                      *)
CreatedRow(k) == \E i \in AddsOf(k) : IsCreated(requests[i])

SameIdentity(j, k) ==
    \/ Present(EmailOf(j)) /\ EmailOf(j) = EmailOf(k)
    \/ /\ ~Present(EmailOf(j))
       /\ ~Present(EmailOf(k))
       /\ Present(PhoneOf(j))
       /\ PhoneOf(j) = PhoneOf(k)

RowAfterRow ==
    /\ \A i, j \in 1..Len(requests) : i < j => requests[i].row <= requests[j].row
    /\ \A i \in 1..Len(requests) : requests[i].row <= idx + 1

C10_NoDoubleCreate ==
    /\ RowAfterRow
    /\ \A j, k \in 1..Len(df) :
          j < k /\ SameIdentity(j, k) => ~(CreatedRow(j) /\ CreatedRow(k))

\* the same, of the Streamlit application alone
C10_Streamlit == variant = "streamlit" => C10_NoDoubleCreate

---------------------------------------------------------------------------
(* Reading a built payload *)

\* the row whose payload has been built
BuiltRow == df[idx + 1]

Built == pc # "loop"

\* the field a mapping item targets, in either program
TargetOf(item) == IF variant = "streamlit" THEN item[2] ELSE item[2].field

\* the columns mapped to field f, in mapping order
RECURSIVE ColumnsFor(_, _)
ColumnsFor(items, f) ==
    IF items = <<>> THEN <<>>
    ELSE (IF TargetOf(Head(items)) = f THEN <<Head(items)[1]>> ELSE <<>>)
         \o ColumnsFor(Tail(items), f)

\* the text a cell stands for: a date for a timestamp, surrounding blanks removed
CellText(c) ==
    IF c.t = "ts" THEN <<c.date>>
    ELSE IF c.t = "num" THEN Digits(c.n)
    ELSE rstrip(lstrip(c.v))

BlankCell(c) == c = None \/ (c.t = "str" /\ rstrip(lstrip(c.v)) = <<>>)

\* the texts of the non-blank cells of the columns, each once, first seen first
RECURSIVE FirstSeen(_, _, _)
FirstSeen(row, cols, acc) ==
    IF cols = <<>> THEN acc
    ELSE LET c == row[Head(cols)]
         IN  IF BlankCell(c) \/ \E n \in 1..Len(acc) : acc[n] = CellText(c)
             THEN FirstSeen(row, Tail(cols), acc)
             ELSE FirstSeen(row, Tail(cols), Append(acc, CellText(c)))

\* the list the payload holds for field f, empty when the key is absent
ListOf(f) == IF f \in DOMAIN fields_payload THEN fields_payload[f] ELSE <<>>

\* the texts of the non-blank entries of a list, in order
RECURSIVE EntryTexts(_)
EntryTexts(lst) ==
    IF lst = <<>> THEN <<>>
    ELSE (IF BlankCell(Head(lst).VALUE) THEN <<>> ELSE <<CellText(Head(lst).VALUE)>>)
         \o EntryTexts(Tail(lst))

(* C6: the payload built by the Streamlit application has the key EMAIL     *)
(* (PHONE) only bound to a non-empty list of entries with non-blank VALUE;  *)
(* when every column mapped to the field is null, empty or blank the key is *)
(* absent; one column mapped to EMAIL holding a text without blanks gives   *)
(* exactly one entry with that VALUE and VALUE_TYPE WORK.                   *)
C6_NoEmptyMultifield ==
    variant = "streamlit" /\ Built =>
        \A f \in {"EMAIL", "PHONE"} :
            LET cols == ColumnsFor(mapping, f)
            IN  /\ f \in DOMAIN fields_payload =>
                      /\ fields_payload[f] # <<>>
                      /\ \A n \in 1..Len(fields_payload[f]) :
                            ~BlankCell(fields_payload[f][n].VALUE)
                /\ (\A n \in 1..Len(cols) : BlankCell(BuiltRow[cols[n]])) =>
                      f \notin DOMAIN fields_payload
                /\ Len(cols) = 1 /\ BuiltRow[cols[1]] = Str(<<"a">>) =>
                      /\ f \in DOMAIN fields_payload
                      /\ fields_payload[f] = <<Entry(Str(<<"a">>), WORK)>>

(* C7: when two or more columns are mapped to the same multi-valued field,  *)
(* the payload's list for the field holds the non-blank values of those     *)
(* columns, each once, in the order they are first seen, all of type WORK:  *)
(* no column's value is lost or overwritten.                                *)
C7_MultiColumnMerge ==
    Built =>
        \A f \in {"EMAIL", "PHONE"} :
            LET cols == ColumnsFor(mapping, f)
            IN  Len(cols) >= 2 =>
                    /\ EntryTexts(ListOf(f)) = FirstSeen(BuiltRow, cols, <<>>)
                    /\ \A n \in 1..Len(ListOf(f)) : ListOf(f)[n].VALUE_TYPE = WORK

\* the same, of the Streamlit application alone
C7_Streamlit == variant = "streamlit" => C7_MultiColumnMerge

(* C8: the schema fetcher returns exactly the fields of the catalog whose   *)
(* type is allowed and which are not read-only, plus EMAIL and PHONE        *)
(* whenever the catalog has them.                                           *)
ReturnedFields ==
    IF variant = "streamlit" THEN DOMAIN fields
    ELSE {fields[1][n] : n \in 1..Len(fields[1])}

FetchSucceeded ==
    /\ pc = "fetched"
    /\ "result" \in DOMAIN catalog
    /\ variant = "cli" => fields # <<>>

C8_FetchedFields ==
    FetchSucceeded =>
        ReturnedFields =
            {k \in DOMAIN catalog.result :
                \/ k \in {"EMAIL", "PHONE"}
                \/ /\ "type" \in DOMAIN catalog.result[k]
                   /\ catalog.result[k].type \in
                        {"string", "integer", "double", "boolean", "enumeration",
                         "date", "datetime"}
                   /\ ~("isReadOnly" \in DOMAIN catalog.result[k]
                        /\ catalog.result[k].isReadOnly)}

\* without the exception for EMAIL and PHONE the fetchers agree with it
C8_WithoutException ==
    FetchSucceeded =>
        ReturnedFields =
            {k \in DOMAIN catalog.result :
                /\ "type" \in DOMAIN catalog.result[k]
                /\ catalog.result[k].type \in
                     {"string", "integer", "double", "boolean", "enumeration",
                      "date", "datetime"}
                /\ ~("isReadOnly" \in DOMAIN catalog.result[k]
                     /\ catalog.result[k].isReadOnly)}

=============================================================================
